---- MODULE Spec2Model ----
(***************************************************************************)
(* The rebalancing pipeline of etf_dualmomentum.py: metrics fetch, core    *)
(* targets, momentum candidate selection, blending with the overvaluation  *)
(* override, normalisation, trade sizing with the 1000-rupee deadband and  *)
(* the turnover cap.                                                       *)
(*                                                                         *)
(* The script is one batch run over module-level dictionaries.  Each       *)
(* numbered section of the script is one action; pc is the section the run *)
(* is about to execute.  Python floats are modelled as exact rationals     *)
(* <<numerator, denominator>> in lowest terms, so "up to epsilon" in a     *)
(* property means "exactly" here.  A formatted amount string ("₹1,234",    *)
(* "₹1,234.0") is modelled by the integer its digits denote: formatting    *)
(* rounds half-to-even to a whole rupee and parsing reads that integer     *)
(* back.                                                                   *)
(*                                                                         *)
(* The basket is four of the configured instruments, in their configured   *)
(* order and with their configured within-bucket weights: one alone in its *)
(* bucket, two sharing a bucket, and the safe instrument.                  *)
(***************************************************************************)
EXTENDS Integers, Sequences, FiniteSets

VARIABLES
    provider,             \* what the price-history collaborator answers per instrument
    bucket_targets,       \* bucket -> target fraction
    current_holdings,     \* instrument or "newCash" -> rupees
    momentum_pct,         \* tactical fraction
    MAX_TURNOVER_PCT,     \* turnover cap fraction
    etf_metrics,          \* instrument -> metrics record or None
    total_value,
    core_targets,         \* covered instrument -> core weight
    momentum_candidates,  \* sorted sequence of <<name, r6m>>
    tactical_allocation,  \* instrument -> tactical weight
    final_targets,        \* instrument -> blended weight
    sum_targets,          \* the sum normalisation tested
    diff,                 \* instrument -> diff of section 4
    output,               \* instrument -> [current, target, action] row
    diff_scaled,          \* instrument -> diff_scaled of section 5, when it scaled
    turnover_note,        \* "" unless section 5 scaled the trades
    pc                    \* the section the run executes next

vars == <<provider, bucket_targets, current_holdings, momentum_pct, MAX_TURNOVER_PCT,
          etf_metrics, total_value, core_targets, momentum_candidates,
          tactical_allocation, final_targets, sum_targets, diff, output, diff_scaled,
          turnover_note, pc>>

None == "None"

-----------------------------------------------------------------------------
(* Bounds of the model.                                                    *)

\* Holdings range over 0, 1000, ..., MaxUnits * 1000 rupees.
MaxUnits == 2
\* The close 126 sessions ago ranges over 10, 8, ..., 10 - 2 * MaxBase.
MaxBase == 2

-----------------------------------------------------------------------------
(* Exact rational arithmetic standing for Python float arithmetic.         *)

RECURSIVE GCD(_, _)
GCD(a, b) == IF b = 0 THEN a ELSE GCD(b, a % b)

Abs(i) == IF i < 0 THEN -i ELSE i

Rat(n, d) ==
    LET s == IF d < 0 THEN -1 ELSE 1
        g == GCD(Abs(n), Abs(d))
    IN  <<(s * n) \div g, (s * d) \div g>>

FromInt(i) == <<i, 1>>
Zero == <<0, 1>>
One == <<1, 1>>

RAdd(a, b) ==
    LET g == GCD(a[2], b[2])
    IN  Rat(a[1] * (b[2] \div g) + b[1] * (a[2] \div g), a[2] * (b[2] \div g))

RNeg(a) == <<-a[1], a[2]>>
RSub(a, b) == RAdd(a, RNeg(b))

RMul(a, b) ==
    LET g1 == GCD(Abs(a[1]), b[2])
        g2 == GCD(Abs(b[1]), a[2])
    IN  Rat((a[1] \div g1) * (b[1] \div g2), (a[2] \div g2) * (b[2] \div g1))

\* a / b for b # 0
RDiv(a, b) == RMul(a, Rat(b[2], b[1]))

RLt(a, b) == RSub(a, b)[1] < 0
RGt(a, b) == RLt(b, a)
RLe(a, b) == ~RLt(b, a)
RAbs(a) == <<Abs(a[1]), a[2]>>

\* Sum of f[x] over the set S.
RECURSIVE RSum(_, _)
RSum(f, S) ==
    IF S = {} THEN Zero
    ELSE LET x == CHOOSE y \in S : TRUE IN RAdd(f[x], RSum(f, S \ {x}))

RECURSIVE ISum(_, _)
ISum(f, S) ==
    IF S = {} THEN 0
    ELSE LET x == CHOOSE y \in S : TRUE IN f[x] + ISum(f, S \ {x})

\* Python's round(x, 0) and the ".0f" format: nearest integer, ties to even.
RoundHalfEven(a) ==
    LET q == a[1] \div a[2]
        r == a[1] - q * a[2]
    IN  IF 2 * r < a[2] THEN q
        ELSE IF 2 * r > a[2] THEN q + 1
        ELSE IF q % 2 = 0 THEN q ELSE q + 1

-----------------------------------------------------------------------------
(* USER PARAMETERS of the script.                                          *)

\* The instruments in the iteration order of the etfs dictionary.
EtfOrder == <<"MON100", "GOLDBEES", "SILVERIETF", "LIQUIDBEES">>

etfs == {EtfOrder[i] : i \in 1..Len(EtfOrder)}

\* The safe instrument named in sections 2 and the fallback.
SafeEtf == "LIQUIDBEES"

buffett_within_bucket_weights ==
    [Global |-> [MON100 |-> <<1, 1>>],
     Metal  |-> [GOLDBEES |-> <<3, 5>>, SILVERIETF |-> <<2, 5>>],
     Safe   |-> [LIQUIDBEES |-> <<1, 1>>]]

\* "if abs(diff) < 1000"
Deadband == 1000

\* "if len(hist) >= 130"
MinHistoryLen == 130

-----------------------------------------------------------------------------
(* Helper functions.                                                       *)

\* A missing metrics dictionary (Python None) and a missing 6-month return.
NoMetrics == [absent |-> TRUE]
NoReturn == <<>>

\* fetch_etf_metrics on the history h the collaborator returned.
fetch_etf_metrics(h) ==
    IF h.kind = "empty" THEN NoMetrics
    ELSE [price |-> FromInt(h.latest),
          ma200 |-> FromInt(h.ma200),
          avg1y |-> FromInt(h.avg1y),
          r6m   |-> IF h.len >= MinHistoryLen
                    THEN RMul(RDiv(FromInt(h.latest - h.close126), FromInt(h.close126)),
                              FromInt(100))
                    ELSE NoReturn]

classify_valuation(latest, avg1y) ==
    IF RGt(latest, RMul(avg1y, <<6, 5>>)) THEN "Overvalued"
    ELSE IF RLt(latest, RMul(avg1y, <<9, 10>>)) THEN "Undervalued"
    ELSE "Fair"

\* The valuation sections 3 and 4 recompute: None when there are no metrics.
ValuationOf(metrics) ==
    IF metrics = NoMetrics THEN None
    ELSE classify_valuation(metrics.price, metrics.avg1y)

-----------------------------------------------------------------------------
(* Section 1: core targets.                                                *)

CoreTargets(bt) ==
    LET buckets == (DOMAIN bt) \cap (DOMAIN buffett_within_bucket_weights)
        covered == UNION {DOMAIN buffett_within_bucket_weights[b] : b \in buckets}
        bucketOf(e) == CHOOSE b \in buckets : e \in DOMAIN buffett_within_bucket_weights[b]
    IN  [e \in covered |-> RMul(bt[bucketOf(e)], buffett_within_bucket_weights[bucketOf(e)][e])]

-----------------------------------------------------------------------------
(* Section 2: tactical / momentum candidates.                              *)

\* The test of the candidate loop for one instrument.
IsCandidate(name, metrics) ==
    /\ metrics # NoMetrics
    /\ name # SafeEtf
    /\ classify_valuation(metrics.price, metrics.avg1y) # "Overvalued"
    /\ RGt(metrics.price, metrics.ma200)
    /\ metrics.r6m # NoReturn
    /\ RGt(metrics.r6m, Zero)

RECURSIVE CollectCandidates(_, _)
CollectCandidates(m, i) ==
    IF i > Len(EtfOrder) THEN <<>>
    ELSE (IF IsCandidate(EtfOrder[i], m[EtfOrder[i]])
          THEN <<<<EtfOrder[i], m[EtfOrder[i]].r6m>>>>
          ELSE <<>>) \o CollectCandidates(m, i + 1)

\* Mutant: an unstable descending sort, which puts x before its equals.
RECURSIVE InsertDescUnstable(_, _)
InsertDescUnstable(s, x) ==
    IF s = <<>> THEN <<x>>
    ELSE IF RLe(Head(s)[2], x[2]) THEN <<x>> \o s
    ELSE <<Head(s)>> \o InsertDescUnstable(Tail(s), x)

\* list.sort(key=r6m, reverse=True): descending and stable, so x goes after
\* every element whose key is at least its own.
RECURSIVE InsertDesc(_, _)
InsertDesc(s, x) ==
    IF s = <<>> THEN <<x>>
    ELSE IF RLt(Head(s)[2], x[2]) THEN <<x>> \o s
    ELSE <<Head(s)>> \o InsertDesc(Tail(s), x)

RECURSIVE SortDesc(_, _)
SortDesc(done, rest) ==
    IF rest = <<>> THEN done
    ELSE SortDesc(InsertDesc(done, Head(rest)), Tail(rest))

MomentumCandidates(m) == SortDesc(<<>>, CollectCandidates(m, 1))

\* Mutant: the fallback goes to the first instrument, not the safe one.
TacticalAllocationFirst(cands, pct) ==
    LET top == IF cands # <<>> THEN cands[1][1] ELSE EtfOrder[1]
    IN  [e \in etfs |-> IF e = top THEN pct ELSE Zero]

TacticalAllocation(cands, pct) ==
    LET top == IF cands # <<>> THEN cands[1][1] ELSE SafeEtf
    IN  [e \in etfs |-> IF e = top THEN pct ELSE Zero]

-----------------------------------------------------------------------------
(* Section 3: final blended targets and normalisation.                     *)

\* Mutant: the overvaluation override is left out.
BlendedTargetNoOverride(etf, core, tact, m) ==
    RAdd(IF etf \in DOMAIN core THEN core[etf] ELSE Zero, tact[etf])

\* Mutant: the override also fires for an instrument without metrics.
BlendedTargetNeedsMetrics(etf, core, tact, m) ==
    LET c == IF etf \in DOMAIN core THEN core[etf] ELSE Zero
        t == IF ValuationOf(m[etf]) \in {"Overvalued", None} THEN Zero ELSE tact[etf]
    IN  RAdd(c, t)

BlendedTarget(etf, core, tact, m) ==
    LET c == IF etf \in DOMAIN core THEN core[etf] ELSE Zero
        t == IF ValuationOf(m[etf]) = "Overvalued" THEN Zero ELSE tact[etf]
    IN  RAdd(c, t)

\* Mutant: the weights are divided only when the sum exceeds 1.05.
NormalizedLate(ft, s) ==
    IF RGt(s, <<21, 20>>) THEN [k \in DOMAIN ft |-> RDiv(ft[k], s)] ELSE ft

Normalized(ft, s) ==
    IF RGt(s, One) THEN [k \in DOMAIN ft |-> RDiv(ft[k], s)] ELSE ft

-----------------------------------------------------------------------------
(* Section 4: rupee targets and actions.                                   *)

\* The f"{x:,.0f}" format followed by the float(...) parse of section 5.
Format0f(x) == RoundHalfEven(x)

\* Mutant: a delta exactly on the deadband is a HOLD.
ActionOfInclusive(d) ==
    IF RLe(RAbs(d), FromInt(Deadband)) THEN [kind |-> "HOLD", amount |-> 0]
    ELSE IF RGt(d, Zero) THEN [kind |-> "BUY", amount |-> RoundHalfEven(d)]
    ELSE [kind |-> "SELL", amount |-> RoundHalfEven(RNeg(d))]

\* The action label chosen from a delta.
ActionOf(d) ==
    IF RLt(RAbs(d), FromInt(Deadband)) THEN [kind |-> "HOLD", amount |-> 0]
    ELSE IF RGt(d, Zero) THEN [kind |-> "BUY", amount |-> RoundHalfEven(d)]
    ELSE [kind |-> "SELL", amount |-> RoundHalfEven(RNeg(d))]

CurrentAmt(h, etf) == IF etf \in DOMAIN h THEN h[etf] ELSE 0

TradeDiff(ft, tv, h, etf) == RSub(RMul(FromInt(tv), ft[etf]), FromInt(CurrentAmt(h, etf)))

SizedRow(ft, tv, h, etf) ==
    [current |-> Format0f(FromInt(CurrentAmt(h, etf))),
     target  |-> Format0f(RMul(FromInt(tv), ft[etf])),
     action  |-> ActionOf(TradeDiff(ft, tv, h, etf))]

-----------------------------------------------------------------------------
(* Section 5: enforce MAX_TURNOVER_PCT.                                    *)

ProposedTurnover(rows) ==
    ISum([e \in DOMAIN rows |-> Abs(rows[e].target - rows[e].current)], DOMAIN rows)

TurnoverLimit(cap, tv) == RMul(cap, FromInt(tv))

ScalingTriggered(rows, tv, cap) ==
    /\ RGt(FromInt(ProposedTurnover(rows)), TurnoverLimit(cap, tv))
    /\ ProposedTurnover(rows) > 0

\* Mutant: the ratio is taken the wrong way round.
ScaleInverted(rows, tv, cap) ==
    RDiv(FromInt(ProposedTurnover(rows)), TurnoverLimit(cap, tv))

Scale(rows, tv, cap) == RDiv(TurnoverLimit(cap, tv), FromInt(ProposedTurnover(rows)))

\* diff_scaled of one row.
DiffScaled(rows, tv, cap, e) ==
    RMul(FromInt(rows[e].target - rows[e].current), Scale(rows, tv, cap))

\* The target string section 5 writes back: round(cur + diff_scaled, 0).
RewrittenTarget(cur, ds) == RoundHalfEven(RAdd(FromInt(cur), ds))

ScaledRow(rows, tv, cap, e) ==
    [current |-> rows[e].current,
     target  |-> RewrittenTarget(rows[e].current, DiffScaled(rows, tv, cap, e)),
     action  |-> ActionOf(DiffScaled(rows, tv, cap, e))]

\* The whole of section 5 as a function of the rows it is given.
TurnoverLimiter(rows, tv, cap) ==
    IF ScalingTriggered(rows, tv, cap)
    THEN [e \in DOMAIN rows |-> ScaledRow(rows, tv, cap, e)]
    ELSE rows

-----------------------------------------------------------------------------
(* Inputs.                                                                 *)

\* A dictionary not assigned yet.
Unset == <<>>

Amounts == {1000 * u : u \in 0..MaxUnits}

Accounts == etfs \cup {"newCash"}

\* Bucket policies: the configured Metal and Safe targets, and a Global
\* target that makes core plus tactical fall below, on and above 1.0.
Policy(g) == [Global |-> <<g, 20>>, Metal |-> <<1, 4>>, Safe |-> <<1, 5>>]

Policies == {Policy(g) : g \in {9, 10, 11}}

\* What the price-history collaborator can answer for one symbol: an
\* exception, an empty frame, or a history summarised by the figures
\* fetch_etf_metrics reads from it.
\* (The older close of a history too short for a 6-month return is never read:
\* one value stands for it.)
Histories ==
    {h \in [kind : {"hist"}, len : {129, 130}, latest : {8, 10, 13}, ma200 : {9},
            avg1y : {10}, close126 : {10 - 2 * k : k \in 0..MaxBase}] :
        h.len = 130 \/ h.close126 = 10}

Failures == {[kind |-> "raise"], [kind |-> "empty"]}

Responses == Failures \cup Histories

\* The answers tried for the safe instrument, whose return is never read.
SafeResponses ==
    {[kind |-> "raise"]} \cup {h \in Histories : h.len = 130 /\ h.close126 = 10}

\* The collaborator's answers under which trade sizing is explored: no data
\* at all, everything fairly valued with MON100 trending up, and an
\* overvalued safe instrument with no candidate.
FairUp == [kind |-> "hist", len |-> 130, latest |-> 10, ma200 |-> 9, avg1y |-> 10, close126 |-> 8]
Flat == [kind |-> "hist", len |-> 130, latest |-> 10, ma200 |-> 9, avg1y |-> 10, close126 |-> 10]
Rich == [kind |-> "hist", len |-> 130, latest |-> 13, ma200 |-> 9, avg1y |-> 10, close126 |-> 10]

TradeProviders ==
    {[e \in etfs |-> [kind |-> "raise"]],
     [e \in etfs |-> IF e = "MON100" THEN FairUp ELSE Flat],
     [e \in etfs |-> IF e = SafeEtf THEN Rich ELSE Flat]}

InitRun ==
    /\ etf_metrics = Unset
    /\ total_value = 0
    /\ core_targets = Unset
    /\ momentum_candidates = <<>>
    /\ tactical_allocation = Unset
    /\ final_targets = Unset
    /\ sum_targets = Zero
    /\ diff = Unset
    /\ output = Unset
    /\ diff_scaled = Unset
    /\ turnover_note = ""
    /\ pc = "fetch"

\* Every combination of collaborator answers, under one portfolio.
InitSelect ==
    /\ provider \in {p \in [etfs -> Responses] : p[SafeEtf] \in SafeResponses}
    /\ bucket_targets \in {Policy(9), Policy(11)}
    /\ current_holdings = [a \in Accounts |-> IF a = "newCash" THEN 1000 ELSE 2000]
    /\ momentum_pct = <<1, 20>>
    /\ MAX_TURNOVER_PCT = <<1, 5>>
    /\ InitRun

\* Every portfolio, under a few collaborator answers.
InitTrade ==
    /\ provider \in TradeProviders
    /\ bucket_targets \in Policies
    /\ current_holdings \in [Accounts -> Amounts]
    /\ momentum_pct = <<1, 20>>
    /\ MAX_TURNOVER_PCT \in {<<1, 5>>, <<1, 2>>}
    /\ InitRun

Init == InitSelect \/ InitTrade

-----------------------------------------------------------------------------
(* The sections of the script.                                             *)

\* "Fetch ETF metrics": an exception in the fetch leaves None.
FetchMetrics ==
    /\ pc = "fetch"
    /\ etf_metrics' = [name \in etfs |->
                          IF provider[name].kind = "raise" THEN NoMetrics
                          ELSE fetch_etf_metrics(provider[name])]
    /\ pc' = "core"
    /\ UNCHANGED <<provider, bucket_targets, current_holdings, momentum_pct,
                   MAX_TURNOVER_PCT, total_value, core_targets, momentum_candidates,
                   tactical_allocation, final_targets, sum_targets, diff, output,
                   diff_scaled, turnover_note>>

\* total_value and "1) Core targets".
BuildCoreTargets ==
    /\ pc = "core"
    /\ total_value' = ISum(current_holdings, DOMAIN current_holdings)
    /\ core_targets' = CoreTargets(bucket_targets)
    /\ pc' = "momentum"
    /\ UNCHANGED <<provider, bucket_targets, current_holdings, momentum_pct,
                   MAX_TURNOVER_PCT, etf_metrics, momentum_candidates,
                   tactical_allocation, final_targets, sum_targets, diff, output,
                   diff_scaled, turnover_note>>

\* "2) Tactical / momentum candidates".
SelectMomentum ==
    /\ pc = "momentum"
    /\ momentum_candidates' = MomentumCandidates(etf_metrics)
    /\ tactical_allocation' = TacticalAllocation(momentum_candidates', momentum_pct)
    /\ pc' = "blend"
    /\ UNCHANGED <<provider, bucket_targets, current_holdings, momentum_pct,
                   MAX_TURNOVER_PCT, etf_metrics, total_value, core_targets,
                   final_targets, sum_targets, diff, output, diff_scaled, turnover_note>>

\* "3) Final blended targets".
BlendTargets ==
    /\ pc = "blend"
    /\ final_targets' = [etf \in etfs |->
                            BlendedTarget(etf, core_targets, tactical_allocation, etf_metrics)]
    /\ pc' = "normalize"
    /\ UNCHANGED <<provider, bucket_targets, current_holdings, momentum_pct,
                   MAX_TURNOVER_PCT, etf_metrics, total_value, core_targets,
                   momentum_candidates, tactical_allocation, sum_targets, diff, output,
                   diff_scaled, turnover_note>>

\* "Normalize if >1".
NormalizeTargets ==
    /\ pc = "normalize"
    /\ sum_targets' = RSum(final_targets, DOMAIN final_targets)
    /\ final_targets' = Normalized(final_targets, sum_targets')
    /\ pc' = "size"
    /\ UNCHANGED <<provider, bucket_targets, current_holdings, momentum_pct,
                   MAX_TURNOVER_PCT, etf_metrics, total_value, core_targets,
                   momentum_candidates, tactical_allocation, diff, output, diff_scaled,
                   turnover_note>>

\* "4) Compute rupee targets and actions".
SizeTrades ==
    /\ pc = "size"
    /\ diff' = [etf \in DOMAIN final_targets |->
                   TradeDiff(final_targets, total_value, current_holdings, etf)]
    /\ output' = [etf \in DOMAIN final_targets |->
                     SizedRow(final_targets, total_value, current_holdings, etf)]
    /\ pc' = "turnover"
    /\ UNCHANGED <<provider, bucket_targets, current_holdings, momentum_pct,
                   MAX_TURNOVER_PCT, etf_metrics, total_value, core_targets,
                   momentum_candidates, tactical_allocation, final_targets, sum_targets,
                   diff_scaled, turnover_note>>

\* "5) Enforce MAX_TURNOVER_PCT".
EnforceTurnover ==
    /\ pc = "turnover"
    /\ output' = TurnoverLimiter(output, total_value, MAX_TURNOVER_PCT)
    /\ IF ScalingTriggered(output, total_value, MAX_TURNOVER_PCT)
       THEN /\ diff_scaled' = [e \in DOMAIN output |->
                                  DiffScaled(output, total_value, MAX_TURNOVER_PCT, e)]
            /\ turnover_note' = "Turnover exceeds cap"
       ELSE UNCHANGED <<diff_scaled, turnover_note>>
    /\ pc' = "done"
    /\ UNCHANGED <<provider, bucket_targets, current_holdings, momentum_pct,
                   MAX_TURNOVER_PCT, etf_metrics, total_value, core_targets,
                   momentum_candidates, tactical_allocation, final_targets, sum_targets,
                   diff>>

Next ==
    \/ FetchMetrics
    \/ BuildCoreTargets
    \/ SelectMomentum
    \/ BlendTargets
    \/ NormalizeTargets
    \/ SizeTrades
    \/ EnforceTurnover

Spec == Init /\ [][Next]_vars
SpecSelect == InitSelect /\ [][Next]_vars
SpecTrade == InitTrade /\ [][Next]_vars

-----------------------------------------------------------------------------
(* Vocabulary of the properties, stated from the run's dictionaries and    *)
(* not from the operators above.                                           *)

Normalised == pc \in {"size", "turnover", "done"}
Selected == pc \in {"blend", "normalize", "size", "turnover", "done"}
Sized == pc \in {"turnover", "done"}
ScalingDone == pc = "done" /\ turnover_note # ""

IndexOf(e) == CHOOSE i \in 1..Len(EtfOrder) : EtfOrder[i] = e

HasMetrics(e) == etf_metrics[e] # NoMetrics

\* latestPrice > trailingYearAverage * 1.2, over integers
Overvalued(e) ==
    /\ HasMetrics(e)
    /\ 5 * etf_metrics[e].price[1] * etf_metrics[e].avg1y[2]
         > 6 * etf_metrics[e].avg1y[1] * etf_metrics[e].price[2]

Eligible(e) ==
    /\ HasMetrics(e)
    /\ e # SafeEtf
    /\ ~Overvalued(e)
    /\ RGt(etf_metrics[e].price, etf_metrics[e].ma200)
    /\ etf_metrics[e].r6m # NoReturn
    /\ etf_metrics[e].r6m[1] > 0

\* The highest return wins; among equal returns the first in iteration order.
Beats(e, f) ==
    \/ RGt(etf_metrics[e].r6m, etf_metrics[f].r6m)
    \/ etf_metrics[e].r6m = etf_metrics[f].r6m /\ IndexOf(e) <= IndexOf(f)

ExpectedWinner ==
    IF \E e \in etfs : Eligible(e)
    THEN CHOOSE e \in etfs : Eligible(e) /\ \A f \in etfs : Eligible(f) => Beats(e, f)
    ELSE SafeEtf

\* bucket target x within-bucket weight of the instrument's bucket
CoreWeight(e) ==
    LET b == CHOOSE x \in DOMAIN buffett_within_bucket_weights :
                 e \in DOMAIN buffett_within_bucket_weights[x]
    IN  RMul(bucket_targets[b], buffett_within_bucket_weights[b][e])

\* The weight before normalisation read back from the final one.
Denormalised(w) == IF RGt(sum_targets, One) THEN RMul(w, sum_targets) ELSE w

\* The deadband rule for a label and the delta it was chosen from.
Labelled(kind, d) ==
    /\ d[1] < Deadband * d[2] /\ -d[1] < Deadband * d[2] => kind = "HOLD"
    /\ d[1] >= Deadband * d[2] => kind = "BUY"
    /\ -d[1] >= Deadband * d[2] => kind = "SELL"

Sign(i) == IF i > 0 THEN 1 ELSE IF i < 0 THEN -1 ELSE 0

\* The row section 4 wrote, which section 5 reads.
SizedTarget(e) == RoundHalfEven(RMul(FromInt(total_value), final_targets[e]))
SizedDelta(e) == SizedTarget(e) - current_holdings[e]
Proposed == ISum([e \in etfs |-> Abs(SizedDelta(e))], etfs)
Limit == RMul(MAX_TURNOVER_PCT, FromInt(total_value))

\* The trade the final rows recommend for e.
FinalDelta(e) == output[e].target - output[e].current

-----------------------------------------------------------------------------
(* C1: after normalisation the final target weights sum to at most 1.0;    *)
(* when the raw sum exceeded 1.0 every weight was divided by it and the    *)
(* total is exactly 1.0, otherwise every weight is as blended.             *)
C1_NormalizedSum ==
    Normalised =>
        LET total == RSum(final_targets, etfs)
            raw(e) == RAdd(CoreWeight(e),
                           IF Overvalued(e) THEN Zero ELSE tactical_allocation[e])
        IN  /\ sum_targets = RSum([e \in etfs |-> raw(e)], etfs)
            /\ RLe(total, One)
            /\ RGt(sum_targets, One) =>
                   /\ total = One
                   /\ \A e \in etfs : final_targets[e] = RDiv(raw(e), sum_targets)
            /\ RLe(sum_targets, One) =>
                   /\ total = sum_targets
                   /\ \A e \in etfs : final_targets[e] = raw(e)

C1_Witness ==
    /\ pc = "size"
    /\ RGt(sum_targets, One)
    /\ \E e \in etfs : e # SafeEtf /\ tactical_allocation[e] = momentum_pct

(* C5: exactly one instrument has a nonzero tactical weight, momentum_pct: *)
(* the eligible candidate with the highest six-month return, the first in  *)
(* iteration order among equal returns, or the safe instrument when no     *)
(* candidate is eligible.                                                  *)
C5_SingleWinner ==
    Selected =>
        /\ Cardinality({e \in etfs : tactical_allocation[e] # Zero}) = 1
        /\ tactical_allocation[ExpectedWinner] = momentum_pct
        /\ \A e \in etfs \ {ExpectedWinner} : tactical_allocation[e] = Zero
        /\ \A i \in 1..Len(momentum_candidates) : Eligible(momentum_candidates[i][1])
        /\ \A e \in etfs : Eligible(e) =>
               \E i \in 1..Len(momentum_candidates) : momentum_candidates[i][1] = e

\* Two eligible candidates tie on the highest return and a third is lower.
C5_Witness ==
    /\ pc = "blend"
    /\ \E e, f, g \in etfs :
          /\ e # f /\ Eligible(e) /\ Eligible(f) /\ Eligible(g)
          /\ etf_metrics[e].r6m = etf_metrics[f].r6m
          /\ RGt(etf_metrics[e].r6m, etf_metrics[g].r6m)
          /\ IndexOf(g) < IndexOf(e) /\ IndexOf(e) < IndexOf(f)
          /\ tactical_allocation[e] = momentum_pct

(* C6: an Overvalued instrument carries no tactical weight: its weight     *)
(* before normalisation is its core weight alone, also when it is the safe *)
(* instrument given the fallback allocation, and the core weight stays.    *)
C6_OvervaluedNoTactical ==
    \A e \in etfs :
        /\ pc = "normalize" /\ Overvalued(e) => final_targets[e] = CoreWeight(e)
        /\ Normalised /\ Overvalued(e) =>
               /\ Denormalised(final_targets[e]) = CoreWeight(e)
               /\ final_targets[e][1] > 0

C6_Witness ==
    /\ pc = "normalize"
    /\ Overvalued(SafeEtf)
    /\ tactical_allocation[SafeEtf] = momentum_pct
    /\ final_targets[SafeEtf] = CoreWeight(SafeEtf)

(* C7 as stated: whenever no instrument is momentum-eligible the safe      *)
(* instrument's tactical component is momentum_pct and its final target    *)
(* weight is bucket target x within-bucket weight + momentum_pct.          *)
C7_Original ==
    Normalised /\ (\A e \in etfs : ~Eligible(e)) =>
        /\ tactical_allocation[SafeEtf] = momentum_pct
        /\ final_targets[SafeEtf] = RAdd(CoreWeight(SafeEtf), momentum_pct)

(* C7 amended: whenever no instrument is momentum-eligible the safe        *)
(* instrument's tactical component is momentum_pct; its weight before      *)
(* normalisation is core + momentum_pct unless it is Overvalued, when it   *)
(* is the core weight alone; and its final weight is that weight, divided  *)
(* by the raw sum when the raw sum exceeds 1.0.                            *)
C7_FallbackWeight ==
    Selected /\ (\A e \in etfs : ~Eligible(e)) =>
        LET raw == IF Overvalued(SafeEtf) THEN CoreWeight(SafeEtf)
                   ELSE RAdd(CoreWeight(SafeEtf), momentum_pct)
        IN  /\ tactical_allocation[SafeEtf] = momentum_pct
            /\ pc = "normalize" => final_targets[SafeEtf] = raw
            /\ Normalised =>
                   final_targets[SafeEtf] =
                       IF RGt(sum_targets, One) THEN RDiv(raw, sum_targets) ELSE raw

C7_Witness ==
    /\ pc = "done"
    /\ \A e \in etfs : ~Eligible(e)
    /\ ~Overvalued(SafeEtf)
    /\ RGt(sum_targets, One)
    /\ final_targets[SafeEtf] # RAdd(CoreWeight(SafeEtf), momentum_pct)

C2_TurnoverBound ==
    ScalingDone => RLe(FromInt(ISum([e \in etfs |-> Abs(FinalDelta(e))], etfs)), Limit)

(* C3: when scaling is triggered one factor, limit / proposed turnover,    *)
(* strictly between 0 and 1, multiplies every instrument's delta, so every *)
(* scaled delta has the sign of the original and no larger a magnitude;    *)
(* the rewritten whole-rupee trade never changes direction or grows.       *)
C3_SignPreserved ==
    ScalingDone =>
        LET s == RDiv(Limit, FromInt(Proposed))
        IN  /\ Proposed > 0 /\ RGt(FromInt(Proposed), Limit)
            /\ RGt(s, Zero) /\ RLt(s, One)
            /\ \A e \in etfs :
                  /\ diff_scaled[e] = RMul(FromInt(SizedDelta(e)), s)
                  /\ Sign(diff_scaled[e][1]) = Sign(SizedDelta(e))
                  /\ RLe(RAbs(diff_scaled[e]), FromInt(Abs(SizedDelta(e))))
                  /\ Sign(FinalDelta(e)) \in {0, Sign(SizedDelta(e))}
                  /\ Abs(FinalDelta(e)) <= Abs(SizedDelta(e))

\* A scaled run with a purchase and a sale, both still trades after scaling.
C3_Witness ==
    /\ ScalingDone
    /\ \E e, f \in etfs :
          /\ SizedDelta(e) > 0 /\ FinalDelta(e) > 0 /\ FinalDelta(e) < SizedDelta(e)
          /\ SizedDelta(f) < 0 /\ FinalDelta(f) < 0 /\ FinalDelta(f) > SizedDelta(f)

(* C4: applying section 5 to its own output (the rewritten targets and the *)
(* unchanged current amounts) changes neither target amounts nor action    *)
(* labels.                                                                 *)
C4_Idempotent ==
    pc = "done" => TurnoverLimiter(output, total_value, MAX_TURNOVER_PCT) = output

(* C9: in the rows of section 4 and again in the rows section 5 rewrote, a *)
(* delta below the deadband in absolute value is labelled HOLD and a delta *)
(* at or beyond it BUY when positive and SELL when negative; section 5     *)
(* labels from the scaled delta.                                           *)
C9_Deadband ==
    \A e \in etfs :
        LET d == RSub(RMul(FromInt(total_value), final_targets[e]),
                      FromInt(current_holdings[e]))
        IN  /\ pc = "turnover" \/ (pc = "done" /\ turnover_note = "") =>
                   /\ Labelled(output[e].action.kind, d)
                   /\ output[e].action.kind \in {"HOLD", "BUY", "SELL"}
            /\ ScalingDone =>
                   /\ Labelled(output[e].action.kind, diff_scaled[e])
                   /\ output[e].action.kind \in {"HOLD", "BUY", "SELL"}

\* Scaling turned a sized trade into a HOLD, left another a trade, and some
\* delta sits exactly on the deadband.
C9_Witness ==
    /\ ScalingDone
    /\ \E e, f, g \in etfs :
          /\ Abs(SizedDelta(e)) >= Deadband /\ output[e].action.kind = "HOLD"
          /\ output[f].action.kind # "HOLD"
          /\ RAbs(diff_scaled[g]) = FromInt(Deadband)

(* C10: with non-negative holdings and policy fractions, the sum over all  *)
(* instruments of the signed trade delta never exceeds the cash held       *)
(* outside the instrument set, after section 4 and after the scaling of    *)
(* section 5.                                                              *)
C10_NetPurchaseFundable ==
    /\ pc = "turnover" => RLe(RSum(diff, etfs), FromInt(current_holdings.newCash))
    /\ ScalingDone =>
           ISum([e \in etfs |-> FinalDelta(e)], etfs) <= current_holdings.newCash

====
